---- MODULE Spec2Model ----
(***************************************************************************)
(* A model of clarite/modules/modify.py: the column and row filters, the   *)
(* value recoder, the outlier remover and the type casters, each as one    *)
(* call on a dataset the caller holds.                                     *)
(*                                                                         *)
(* A DataFrame is a record                                                 *)
(*   columns     the column labels, in order (list(data))                  *)
(*   index       the row labels, in order                                  *)
(*   values      column label -> sequence of cells (one per row)           *)
(*   dtypes      column label -> "numeric" | "category"                    *)
(*   categories  column label -> the categories of a 'category' column     *)
(*   index_name  df.index.name ("" for None)                               *)
(*   multiindex  TRUE when df.index is a MultiIndex                        *)
(* Python objects live in a two-cell heap: "arg" is the object the caller  *)
(* passes, "new" the object a call allocates; ret names the object a call  *)
(* returns.  In-place writes (df.index.name = ..., data.loc[...] = ...)    *)
(* are writes to the heap cell the local name refers to.                   *)
(* Numbers are exact: a proportion or cutoff is a pair <<num, den>> and    *)
(* every comparison of the code is cross-multiplied to integers.           *)
(***************************************************************************)
EXTENDS Integers, Sequences, FiniteSets, TLC

VARIABLES heap, ret, raised, printed, call

vars == <<heap, ret, raised, printed, call>>

-----------------------------------------------------------------------------
(* Bounds of the model *)

\* rows of the datasets the filters and the recoder start from
FilterRows == 2
\* their non-missing cell values are 0..FilterMaxVal
FilterMaxVal == 1
\* rows of the datasets the outlier remover and the casters start from
StatRows == 3
\* their non-missing cell values are 0..StatMaxVal
StatMaxVal == 2

-----------------------------------------------------------------------------
(* Cells *)

\* np.nan, the missing-value marker; every other cell is a number >= 0
NA == -1

\* the cells of a dataset whose non-missing values are 0..maxval
Cells(maxval) == {NA} \cup (0..maxval)

isnull(v) == v = NA

\* ==, <, > of pandas on cells: any comparison with NaN is False
eq(x, y) == ~isnull(x) /\ ~isnull(y) /\ x = y

Range(s) == {s[i] : i \in DOMAIN s}

RECURSIVE SeqSum(_)
SeqSum(s) == IF s = <<>> THEN 0 ELSE Head(s) + SeqSum(Tail(s))

\* pd.Series.dropna(): the non-missing cells, in order
dropna(col) == SelectSeq(col, LAMBDA v : ~isnull(v))

\* pd.Series.count(): number of non-missing cells
count(col) == Len(dropna(col))

\* the cells of col equal to v
occurrences(col, v) == Len(SelectSeq(col, LAMBDA x : eq(x, v)))

\* pd.Series.nunique(): number of distinct non-missing values
nunique(col) == Cardinality(Range(dropna(col)))

Min(S) == CHOOSE m \in S : \A x \in S : m <= x

-----------------------------------------------------------------------------
(* DataFrames *)

Dtypes == {"numeric", "category"}

NoFrame ==
    [columns |-> <<>>, index |-> <<>>, values |-> <<>>, dtypes |-> <<>>,
     categories |-> <<>>, index_name |-> "", multiindex |-> FALSE]

\* the categories astype('category') gives a column: its observed values
observed(col) == Range(dropna(col))

\* the datasets of n rows over the columns cols, the cells of column c from
\* cells[c], with dtypes from dts, index names from names and index shapes
\* from multi
Frames(cols, n, cells, dts, names, multi) ==
    {[columns |-> cols,
      index |-> [i \in 1..n |-> i],
      values |-> v,
      dtypes |-> d,
      categories |-> [c \in Range(cols) |->
                         IF d[c] = "category" THEN observed(v[c]) ELSE {}],
      index_name |-> nm,
      multiindex |-> mi] :
        v \in {w \in [Range(cols) -> [1..n -> UNION Range(cells)]] :
                    \A c \in Range(cols) : Range(w[c]) \subseteq cells[c]},
        d \in [Range(cols) -> dts],
        nm \in names, mi \in multi}

\* data.loc[:, kept]: a new frame with the kept columns
loc_columns(df, kept) ==
    LET cols == SelectSeq(df.columns, LAMBDA c : kept[c])
    IN  [df EXCEPT !.columns = cols,
                   !.values = [c \in Range(cols) |-> df.values[c]],
                   !.dtypes = [c \in Range(cols) |-> df.dtypes[c]],
                   !.categories = [c \in Range(cols) |-> df.categories[c]]]

\* the positions of the rows of 1..n that keep[i] holds for, in order
RECURSIVE KeptPositions(_, _)
KeptPositions(keep, n) ==
    IF n = 0 THEN <<>>
    ELSE IF keep[n] THEN Append(KeptPositions(keep, n - 1), n)
         ELSE KeptPositions(keep, n - 1)

\* data[keep_IDs]: a new frame with the rows the boolean mask keeps
loc_rows(df, keep) ==
    LET pos == KeptPositions(keep, Len(df.index))
    IN  [df EXCEPT !.index = [i \in 1..Len(pos) |-> df.index[pos[i]]],
                   !.values = [c \in Range(df.columns) |->
                                  [i \in 1..Len(pos) |-> df.values[c][pos[i]]]]]

-----------------------------------------------------------------------------
(* Column selection *)

\* a skip/only argument: None, or a list of column labels
None == [given |-> FALSE, cols |-> {}]
List(S) == [given |-> TRUE, cols |-> S]

\* _validate_skip_only(columns, skip, only), of clarite/internal/utilities.py:
\* both given is an error, so is a label that is no column; only keeps its
\* labels, skip drops its labels, neither keeps every column; the result is
\* in the order of columns
validate_skip_only(columns, skip, only) ==
    IF skip.given /\ only.given
    THEN [raised |-> "ConfigurationError", columns |-> <<>>]
    ELSE IF only.given
    THEN IF only.cols \subseteq Range(columns)
         THEN [raised |-> "",
               columns |-> SelectSeq(columns, LAMBDA c : c \in only.cols)]
         ELSE [raised |-> "UnknownColumnError", columns |-> <<>>]
    ELSE IF skip.given
    THEN IF skip.cols \subseteq Range(columns)
         THEN [raised |-> "",
               columns |-> SelectSeq(columns, LAMBDA c : c \notin skip.cols)]
         ELSE [raised |-> "UnknownColumnError", columns |-> <<>>]
    ELSE [raised |-> "", columns |-> columns]

-----------------------------------------------------------------------------
(* Outcome of a call: the heap after it, the object returned, the error    *)
(* raised and the lines printed.                                           *)

NoError == [kind |-> "", args |-> <<>>]

\* raise: no object is returned; an object the call allocated is dropped
RaiseWith(h, kind, args) ==
    [heap |-> [h EXCEPT !["new"] = NoFrame], ret |-> "none",
     raised |-> [kind |-> kind, args |-> args], printed |-> <<>>]

Raise(h, kind) == RaiseWith(h, kind, <<>>)

\* return the object at ref
ReturnRef(h, ref, lines) ==
    [heap |-> h, ret |-> ref, raised |-> NoError, printed |-> lines]

\* return a newly allocated object
Return(h, df, lines) == ReturnRef([h EXCEPT !["new"] = df], "new", lines)

Line(msg, col, args) == [msg |-> msg, col |-> col, args |-> args]

\* a filter that forgets the selection
kept_mask_unselected(reached, c, columns) == reached

\* kept = (statistic reaches the threshold) | ~data.columns.isin(columns)
kept_mask(reached, c, columns) == reached \/ c \notin Range(columns)

\* the shared tail of the three column filters: count, report, select
colfilter_result(h, df, kept, msg, threshold) ==
    LET num_before == Len(df.columns)
        num_kept == Cardinality({c \in Range(df.columns) : kept[c]})
        num_removed == num_before - num_kept
    IN  Return(h, loc_columns(df, kept),
               <<Line(msg, "", <<num_removed, num_before>> \o threshold)>>)

-----------------------------------------------------------------------------
(* colfilter_percent_zero *)

\* an undefined ratio taken as below every proportion
percent_zero_below_or_nan(col, pn, pd) ==
    \/ count(col) = 0
    \/ occurrences(col, 0) * pd < pn * count(col)

\* percent_value < proportion, where percent_value = sum(col == 0) / col.count()
\* is NaN (and the comparison False) for a column with no non-missing cell
percent_zero_below(col, pn, pd) ==
    /\ count(col) > 0
    /\ occurrences(col, 0) * pd < pn * count(col)

colfilter_percent_zero(h, pn, pd, skip, only) ==
    LET df == h["arg"]
        sel == validate_skip_only(df.columns, skip, only)
        kept == [c \in Range(df.columns) |->
                    kept_mask(percent_zero_below(df.values[c], pn, pd), c,
                              sel.columns)]
    IN  IF sel.raised # "" THEN Raise(h, sel.raised)
        ELSE colfilter_result(h, df, kept, "Removed variables: percent zero",
                              <<pn, pd>>)

-----------------------------------------------------------------------------
(* colfilter_min_n *)

\* a count that must exceed n
min_n_exceeded(col, n) == count(col) > n

\* counts >= n, where counts = data.count()
min_n_reached(col, n) == count(col) >= n

colfilter_min_n(h, n, skip, only) ==
    LET df == h["arg"]
        sel == validate_skip_only(df.columns, skip, only)
        kept == [c \in Range(df.columns) |->
                    kept_mask(min_n_reached(df.values[c], n), c, sel.columns)]
    IN  IF sel.raised # "" THEN Raise(h, sel.raised)
        ELSE colfilter_result(h, df, kept, "Removed variables: min n", <<n>>)

-----------------------------------------------------------------------------
(* colfilter_min_cat_n *)

\* col.value_counts(): one count per distinct non-missing value; a 'category'
\* column has one count per category, 0 for a category no cell holds
value_counts(col, dtype, cats) ==
    LET keys == IF dtype = "category" THEN cats ELSE observed(col)
    IN  [v \in keys |-> occurrences(col, v)]

\* min_category_counts >= n; the minimum of no counts is NaN
min_cat_n_reached(col, dtype, cats, n) ==
    LET vc == value_counts(col, dtype, cats)
    IN  /\ DOMAIN vc # {}
        /\ Min({vc[v] : v \in DOMAIN vc}) >= n

colfilter_min_cat_n(h, n, skip, only) ==
    LET df == h["arg"]
        sel == validate_skip_only(df.columns, skip, only)
        kept == [c \in Range(df.columns) |->
                    kept_mask(min_cat_n_reached(df.values[c], df.dtypes[c],
                                                df.categories[c], n),
                              c, sel.columns)]
    IN  IF sel.raised # "" THEN Raise(h, sel.raised)
        ELSE colfilter_result(h, df, kept, "Removed variables: min cat n", <<n>>)

-----------------------------------------------------------------------------
(* rowfilter_incomplete_observations *)

\* a row filter that looks at every column
row_complete_anywhere(df, columns, i) ==
    Cardinality({c \in Range(df.columns) : isnull(df.values[c][i])}) = 0

\* data[columns].isnull().sum(axis=1) == 0
row_complete(df, columns, i) ==
    Cardinality({c \in Range(columns) : isnull(df.values[c][i])}) = 0

rowfilter_incomplete_observations(h, skip, only) ==
    LET df == h["arg"]
        sel == validate_skip_only(df.columns, skip, only)
        keep_IDs == [i \in 1..Len(df.index) |-> row_complete(df, sel.columns, i)]
        n_kept == Cardinality({i \in 1..Len(df.index) : keep_IDs[i]})
        n_removed == Len(df.index) - n_kept
    IN  IF sel.raised # "" THEN Raise(h, sel.raised)
        ELSE IF Len(df.index) = 0 THEN Raise(h, "ZeroDivisionError")
        ELSE Return(h, loc_rows(df, keep_IDs),
                    <<Line("Removed rows", "", <<n_removed, Len(df.index)>>)>>)

-----------------------------------------------------------------------------
(* recode_values *)

\* the cell data.replace(to_replace=replacement_dict) gives for old: every
\* key is matched against the original cell, so the pairs do not chain
replace(old, replacement_dict) ==
    IF old \in DOMAIN replacement_dict THEN replacement_dict[old] ELSE old

\* ~diff: diff = result.eq(data), then diff[isnull(result) == isnull(data)] = True
recode_changed(old, new) ==
    ~(eq(new, old) \/ (isnull(new) = isnull(old)))

recode_values(h, replacement_dict, skip, only) ==
    LET data == h["arg"]
        limited == skip.given \/ only.given
        sel == validate_skip_only(data.columns, skip, only)
        \* {c: replacement_dict for c in columns}, or every column
        targets == IF limited THEN Range(sel.columns) ELSE Range(data.columns)
        result == [data EXCEPT !.values =
                      [c \in Range(data.columns) |->
                          [i \in 1..Len(data.index) |->
                              IF c \in targets
                              THEN replace(data.values[c][i], replacement_dict)
                              ELSE data.values[c][i]]]]
        diff == [c \in Range(data.columns) |->
                    {i \in 1..Len(data.index) :
                        recode_changed(data.values[c][i], result.values[c][i])}]
        cols_with_changes ==
            Cardinality({c \in Range(data.columns) : Cardinality(diff[c]) > 0})
        cells_with_changes ==
            SeqSum([k \in 1..Len(data.columns) |->
                       Cardinality(diff[data.columns[k]])])
    IN  IF limited /\ sel.raised # "" THEN Raise(h, sel.raised)
        ELSE IF cells_with_changes > 0
        THEN Return(h, result,
                    <<Line("Replaced values", "",
                           <<cells_with_changes, Len(data.index),
                             cols_with_changes>>)>>)
        ELSE Return(h, result, <<Line("nothing was replaced", "", <<>>)>>)

-----------------------------------------------------------------------------
(* remove_outliers *)

\* a copy that is the object itself
copy_alias(h, ref) == [heap |-> h, ref |-> ref]

\* data.copy(deep=True): a new object with the same content
copy(h, ref) == [heap |-> [h EXCEPT !["new"] = h[ref]], ref |-> "new"]

RECURSIVE Insert(_, _)
Insert(v, s) ==
    IF s = <<>> THEN <<v>>
    ELSE IF v <= Head(s) THEN <<v>> \o s
    ELSE <<Head(s)>> \o Insert(v, Tail(s))

RECURSIVE Sort(_)
Sort(s) == IF s = <<>> THEN <<>> ELSE Insert(Head(s), Sort(Tail(s)))

\* 4 * col.quantile(k / 4): linear interpolation between the order statistics
\* around position (n - 1) * k / 4 of the n non-missing cells (NaN when n = 0,
\* in which case no cell is compared with it)
quantile4(col, k) ==
    LET x == Sort(dropna(col))
        pos4 == (Len(x) - 1) * k
        lo == (pos4 \div 4) + 1
        frac4 == pos4 % 4
    IN  IF frac4 = 0 THEN 4 * x[lo]
        ELSE 4 * x[lo] + frac4 * (x[lo + 1] - x[lo])

abs(x) == IF x < 0 THEN 0 - x ELSE x

\* bounds that are themselves outliers
iqr_outlier_inclusive(col, v, cn, cd) ==
    /\ ~isnull(v)
    /\ LET q1 == quantile4(col, 1)
           q3 == quantile4(col, 3)
           iqr == abs(q3 - q1)
           bottom == q1 * cd - iqr * cn
           top == q3 * cd + iqr * cn
       IN  (4 * cd * v <= bottom) \/ (4 * cd * v >= top)

\* (data[c] < bottom) | (data[c] > top) for the cell v, cutoff = cn / cd
iqr_outlier(col, v, cn, cd) ==
    /\ ~isnull(v)
    /\ LET q1 == quantile4(col, 1)
           q3 == quantile4(col, 3)
           iqr == abs(q3 - q1)
           bottom == q1 * cd - iqr * cn
           top == q3 * cd + iqr * cn
       IN  (4 * cd * v < bottom) \/ (4 * cd * v > top)

\* (data[c] - data[c].mean()).abs() > cutoff * data[c].std() for the cell v:
\* with n non-missing cells of sum S and sum of squares SS, mean = S / n and
\* std^2 = (n * SS - S^2) / (n * (n - 1)); both sides are squared.  std is NaN
\* for n = 1 and the comparison False.  The comparison is exact here, where
\* float64 rounds mean and std
gaussian_outlier(col, v, cn, cd) ==
    /\ ~isnull(v)
    /\ LET x == dropna(col)
           n == Len(x)
           S == SeqSum(x)
           SS == SeqSum([i \in 1..n |-> x[i] * x[i]])
       IN  /\ n > 1
           /\ (n * v - S) * (n * v - S) * (n - 1) * cd * cd
                  > cn * cn * n * (n * SS - S * S)

\* a loop that skips no column
is_categorical_never(df, c) == FALSE

\* str(data.dtypes[c]) == 'category'
is_categorical(df, c) == df.dtypes[c] = "category"

\* one pass of the loop body for column c on the object at ref
outliers_column(st, ref, c, method, cn, cd) ==
    LET data == st.heap[ref]
        col == data.values[c]
        outliers == {i \in 1..Len(col) :
                        IF method = "iqr" THEN iqr_outlier(col, col[i], cn, cd)
                        ELSE gaussian_outlier(col, col[i], cn, cd)}
    IN  IF is_categorical(data, c)
        THEN [st EXCEPT !.lines = Append(@, Line("Skipped filtering", c, <<>>))]
        ELSE IF Cardinality(outliers) > 0
        THEN [heap |-> [st.heap EXCEPT ![ref].values[c] =
                           [i \in 1..Len(col) |->
                               IF i \in outliers THEN NA ELSE col[i]]],
              lines |-> Append(st.lines,
                               Line("were outliers", c,
                                    <<Cardinality(outliers), Len(data.index)>>))]
        ELSE st

\* for c in columns: ...
RECURSIVE outliers_loop(_, _, _, _, _, _)
outliers_loop(st, ref, columns, method, cn, cd) ==
    IF columns = <<>> THEN st
    ELSE outliers_loop(outliers_column(st, ref, Head(columns), method, cn, cd),
                       ref, Tail(columns), method, cn, cd)

remove_outliers(h, method, cn, cd, skip, only) ==
    LET cp == copy(h, "arg")
        data == cp.heap[cp.ref]
        sel == validate_skip_only(data.columns, skip, only)
        header == Line(IF method = "iqr" THEN "Removing outliers: iqr"
                       ELSE "Removing outliers: gaussian", "",
                       <<cn, cd, Len(sel.columns)>>)
        done == outliers_loop([heap |-> cp.heap, lines |-> <<header>>], cp.ref,
                              sel.columns, method, cn, cd)
    IN  IF sel.raised # "" THEN Raise(cp.heap, sel.raised)
        ELSE IF cn <= 0 THEN Raise(cp.heap, "ValueError: cutoff")
        ELSE IF method \notin {"iqr", "gaussian"}
        THEN Raise(cp.heap, "ValueError: method")
        ELSE ReturnRef(done.heap, cp.ref, done.lines)

-----------------------------------------------------------------------------
(* make_binary, make_categorical, make_continuous *)

\* df.index.name = "ID", on the object the caller passed
name_index(h, ref) == [h EXCEPT ![ref].index_name = "ID"]

\* df.astype('category'): a new frame; a 'category' column keeps its categories
astype_category(df) ==
    [df EXCEPT !.dtypes = [c \in Range(df.columns) |-> "category"],
               !.categories = [c \in Range(df.columns) |->
                                  IF df.dtypes[c] = "category"
                                  THEN df.categories[c]
                                  ELSE observed(df.values[c])]]

\* df.apply(pd.to_numeric): a new frame of numeric columns
apply_to_numeric(df) ==
    [df EXCEPT !.dtypes = [c \in Range(df.columns) |-> "numeric"],
               !.categories = [c \in Range(df.columns) |-> {}]]

\* "at most 2 values", as the docstring of make_binary has it
non_binary_over_two(df) == {c \in Range(df.columns) : nunique(df.values[c]) > 2}

\* unique_values[unique_values != 2]
non_binary(df) == {c \in Range(df.columns) : nunique(df.values[c]) # 2}

Processed(kind, df) ==
    <<Line(kind, "", <<Len(df.columns), Len(df.index)>>)>>

make_binary(h) ==
    LET named == name_index(h, "arg")
        df == named["arg"]
    IN  IF h["arg"].multiindex THEN Raise(h, "ValueError: multiindex")
        ELSE IF Cardinality(non_binary(df)) > 0
        THEN RaiseWith(named, "ValueError: not 2 unique values",
                       <<Cardinality(non_binary(df)), Len(df.columns)>>)
        ELSE Return(named, astype_category(df),
                    Processed("Processed binary", df))

make_categorical(h) ==
    LET named == name_index(h, "arg")
        df == named["arg"]
    IN  IF h["arg"].multiindex THEN Raise(h, "ValueError: multiindex")
        ELSE Return(named, astype_category(df),
                    Processed("Processed categorical", df))

make_continuous(h) ==
    LET named == name_index(h, "arg")
        df == named["arg"]
    IN  IF h["arg"].multiindex THEN Raise(h, "ValueError: multiindex")
        ELSE Return(named, apply_to_numeric(df),
                    Processed("Processed continuous", df))

-----------------------------------------------------------------------------
(* The calls *)

\* the arguments a caller passes for skip and only
Selections ==
    {<<None, None>>, <<List({"a"}), None>>, <<None, List({"a"})>>,
     <<List({"a"}), List({"b"})>>, <<None, List({"z"})>>}

\* proportions and cutoffs, as <<numerator, denominator>>
Ratios == {<<0, 1>>, <<1, 2>>, <<1, 1>>}

Call(op, skip, only, n, ratio, method, map) ==
    [op |-> op, skip |-> skip, only |-> only, n |-> n, ratio |-> ratio,
     method |-> method, map |-> map]

NoMap == <<>>

NoCall == Call("", None, None, 0, <<0, 1>>, "", NoMap)

\* a call starts when the caller holds no outcome of an earlier call
Idle == call = NoCall

Finish(out, c) ==
    /\ Idle
    /\ heap' = out.heap
    /\ ret' = out.ret
    /\ raised' = out.raised
    /\ printed' = out.printed
    /\ call' = c

ColfilterPercentZero ==
    \E s \in Selections, p \in Ratios :
        Finish(colfilter_percent_zero(heap, p[1], p[2], s[1], s[2]),
               Call("colfilter_percent_zero", s[1], s[2], 0, p, "", NoMap))

ColfilterMinN ==
    \E s \in Selections, n \in 1..(FilterRows + 1) :
        Finish(colfilter_min_n(heap, n, s[1], s[2]),
               Call("colfilter_min_n", s[1], s[2], n, <<0, 1>>, "", NoMap))

ColfilterMinCatN ==
    \E s \in Selections, n \in 1..(FilterRows + 1) :
        Finish(colfilter_min_cat_n(heap, n, s[1], s[2]),
               Call("colfilter_min_cat_n", s[1], s[2], n, <<0, 1>>, "", NoMap))

RowfilterIncompleteObservations ==
    \E s \in Selections :
        Finish(rowfilter_incomplete_observations(heap, s[1], s[2]),
               Call("rowfilter_incomplete_observations", s[1], s[2], 0,
                    <<0, 1>>, "", NoMap))

\* replacement dictionaries of one key
ReplacementDicts ==
    UNION {[{k} -> Cells(FilterMaxVal)] : k \in Cells(FilterMaxVal)}

RecodeValues ==
    \E s \in Selections, d \in ReplacementDicts :
        Finish(recode_values(heap, d, s[1], s[2]),
               Call("recode_values", s[1], s[2], 0, <<0, 1>>, "", d))

Methods == {"gaussian", "iqr", "zscore"}

RemoveOutliers ==
    \E s \in Selections, m \in Methods, cutoff \in Ratios :
        Finish(remove_outliers(heap, m, cutoff[1], cutoff[2], s[1], s[2]),
               Call("remove_outliers", s[1], s[2], 0, cutoff, m, NoMap))

MakeBinary ==
    Finish(make_binary(heap),
           Call("make_binary", None, None, 0, <<0, 1>>, "", NoMap))

MakeCategorical ==
    Finish(make_categorical(heap),
           Call("make_categorical", None, None, 0, <<0, 1>>, "", NoMap))

MakeContinuous ==
    Finish(make_continuous(heap),
           Call("make_continuous", None, None, 0, <<0, 1>>, "", NoMap))

Reset ==
    /\ ret' = "none"
    /\ raised' = NoError
    /\ printed' = <<>>
    /\ call' = NoCall

\* the calls whose docstring example assigns the result to the name of the
\* argument (lines 59, 98, 135, 170, 320, 357, 389)
Reassigned ==
    {"colfilter_percent_zero", "colfilter_min_n", "colfilter_min_cat_n",
     "rowfilter_incomplete_observations", "make_binary", "make_categorical",
     "make_continuous"}

\* data = clarite.modify.colfilter_...(data): the caller keeps the result in
\* place of its argument; a dataset with no column is not passed on (a filter
\* called on it divides by num_before = 0 in its report)
Reassign ==
    /\ ret = "new"
    /\ call.op \in Reassigned
    /\ heap["new"].columns # <<>>
    /\ heap' = [arg |-> heap["new"], new |-> NoFrame]
    /\ Reset

\* the caller drops the outcome of the call (its result, or its error) and
\* keeps the dataset it passed
Discard ==
    /\ ~Idle
    /\ heap' = [heap EXCEPT !["new"] = NoFrame]
    /\ Reset

InitWith(frames) ==
    /\ heap \in {[arg |-> f, new |-> NoFrame] : f \in frames}
    /\ ret = "none"
    /\ raised = NoError
    /\ printed = <<>>
    /\ call = NoCall

AllColumns == <<"a", "b">>

\* the cells of the columns of the datasets the filters and the recoder start from
FilterCells == [c \in {"a", "b"} |-> Cells(FilterMaxVal)]

\* the cells of the columns of the datasets the outlier remover and the casters
\* start from: column b holds one value less than column a
StatCells == [c \in {"a", "b"} |->
                 IF c = "a" THEN Cells(StatMaxVal) ELSE Cells(StatMaxVal - 1)]

InitFilter ==
    InitWith(Frames(AllColumns, FilterRows, FilterCells, Dtypes, {""},
                    {FALSE}))

NextFilter ==
    \/ ColfilterPercentZero
    \/ ColfilterMinN
    \/ ColfilterMinCatN
    \/ RowfilterIncompleteObservations
    \/ Reassign
    \/ Discard

\* the filters, chained
SpecFilter == InitFilter /\ [][NextFilter]_vars

InitRecode ==
    InitWith(Frames(AllColumns, FilterRows, FilterCells, {"numeric"}, {""},
                    {FALSE}))

NextRecode ==
    \/ RecodeValues
    \/ Discard

\* the recoder
SpecRecode == InitRecode /\ [][NextRecode]_vars

InitOutliers ==
    InitWith(Frames(<<"a">>, StatRows, StatCells, Dtypes, {""}, {FALSE}))

NextOutliers ==
    \/ RemoveOutliers
    \/ Discard

\* the outlier remover
SpecOutliers == InitOutliers /\ [][NextOutliers]_vars

\* single-level datasets of two columns, multi-level datasets of one
InitCast ==
    InitWith(Frames(AllColumns, StatRows, StatCells, {"numeric"}, {""}, {FALSE})
             \cup Frames(<<"a">>, StatRows, StatCells, {"numeric"}, {""}, {TRUE}))

NextCast ==
    \/ MakeBinary
    \/ MakeCategorical
    \/ MakeContinuous
    \/ Discard

\* the type casters
SpecCast == InitCast /\ [][NextCast]_vars

Init == InitFilter \/ InitRecode \/ InitOutliers \/ InitCast

Next == NextFilter \/ NextRecode \/ NextOutliers \/ NextCast

\* every call, on every dataset
Spec == Init /\ [][Next]_vars

-----------------------------------------------------------------------------
(* Properties *)

\* the dataset the caller passed and the dataset the call returned
arg == heap["arg"]
res == heap[ret]

Returned(op) == call.op = op /\ ret # "none"

\* column c of the argument is in the selection the call's skip and only
\* resolve to: not in skip, and in only when only is given
Selected(c) ==
    /\ c \in Range(arg.columns)
    /\ call.skip.given => c \notin call.skip.cols
    /\ call.only.given => c \in call.only.cols

NonMissing(col) == {i \in DOMAIN col : col[i] # NA}

Zeros(col) == {i \in DOMAIN col : col[i] = 0}

Distinct(col) == {col[i] : i \in NonMissing(col)}

ColumnFilters ==
    {"colfilter_percent_zero", "colfilter_min_n", "colfilter_min_cat_n"}

\* the rows of column c whose old and new cell differ and are not both missing
C1_Changed(c) ==
    {i \in DOMAIN arg.values[c] :
        LET old == arg.values[c][i]
            new == res.values[c][i]
        IN  ~eq(old, new) /\ ~(isnull(old) /\ isnull(new))}

\* C1: recode_values reports as changed exactly the cells whose old and new
\* value differ and are not both missing: the reported cell count is the number
\* of such cells, the reported column count the number of columns holding one,
\* and "nothing was replaced" is printed exactly when there is none.
C1_ReportsChangedCells ==
    Returned("recode_values") =>
        LET cells == SeqSum([k \in 1..Len(arg.columns) |->
                                Cardinality(C1_Changed(arg.columns[k]))])
            cols == Cardinality({c \in Range(arg.columns) : C1_Changed(c) # {}})
        IN  printed = IF cells = 0
                      THEN <<Line("nothing was replaced", "", <<>>)>>
                      ELSE <<Line("Replaced values", "",
                                  <<cells, Len(arg.index), cols>>)>>

\* C2: after any sequence of column filter calls, the columns of the output
\* of a column filter are among the columns of its input, and every input
\* column outside the resolved selection (in skip, or not in only) is in the
\* output whatever its statistic and the threshold.
C2_SubsetAndUnselectedKept ==
    (call.op \in ColumnFilters /\ ret # "none") =>
        /\ Range(res.columns) \subseteq Range(arg.columns)
        /\ \A c \in Range(arg.columns) :
              ~Selected(c) => c \in Range(res.columns)

\* an unselected column that fails the threshold is kept while the selected
\* one is removed, on a dataset that an earlier filter call returned
C2_Witness ==
    /\ Returned("colfilter_min_n")
    /\ call.skip = List({"a"})
    /\ arg.columns = <<"a", "b">>
    /\ Len(arg.index) < FilterRows
    /\ Cardinality(NonMissing(arg.values["a"])) < call.n
    /\ res.columns = <<"a">>

C4_OrderStat(col, k) ==
    CHOOSE v \in Distinct(col) :
        /\ Cardinality({i \in NonMissing(col) : col[i] < v}) < k
        /\ Cardinality({i \in NonMissing(col) : col[i] <= v}) >= k

\* 4 * (the q/4 quantile of col, by linear interpolation at (n - 1) * q / 4)
C4_Quartile4(col, q) ==
    LET n == Cardinality(NonMissing(col))
        lo == ((n - 1) * q) \div 4
        r == ((n - 1) * q) % 4
    IN  IF r = 0 THEN 4 * C4_OrderStat(col, lo + 1)
        ELSE (4 - r) * C4_OrderStat(col, lo + 1) + r * C4_OrderStat(col, lo + 2)

\* v < Q1 - cutoff * IQR or v > Q3 + cutoff * IQR, times 4 * den(cutoff)
C4_Flagged(col, v) ==
    /\ v # NA
    /\ LET Q1 == C4_Quartile4(col, 1)
           Q3 == C4_Quartile4(col, 3)
           cn == call.ratio[1]
           cd == call.ratio[2]
       IN  \/ 4 * cd * v < cd * Q1 - cn * (Q3 - Q1)
           \/ 4 * cd * v > cd * Q3 + cn * (Q3 - Q1)

C5_CategoricalUntouched ==
    Returned("remove_outliers") =>
        \A c \in Range(arg.columns) :
            arg.dtypes[c] = "category" => res.values[c] = arg.values[c]

\* a selected categorical column whose largest cell lies beyond the bounds
C5_Witness ==
    /\ Returned("remove_outliers")
    /\ Selected("a") /\ arg.dtypes["a"] = "category"
    /\ call.ratio = <<1, 2>>
    /\ arg.values["a"] = <<0, 0, StatMaxVal>>
    /\ res.values["a"] = arg.values["a"]
    /\ printed[Len(printed)] = Line("Skipped filtering", "a", <<>>)

\* C6: remove_outliers never mutates its input: whether it returns or
\* raises, the caller's dataset is what it was before the call.
C6_InputUnchanged ==
    [][call'.op = "remove_outliers" => heap'["arg"] = heap["arg"]]_vars

\* a call that nulled a cell of its result
C6_Witness ==
    /\ Returned("remove_outliers")
    /\ \E i \in DOMAIN arg.values["a"] :
          arg.values["a"][i] # NA /\ res.values["a"][i] = NA

\* C7: the type casters do not mutate their input: whether a call returns or
\* raises, the caller's dataset, the name of its index included, is what it
\* was before the call.
C7_CastersLeaveInput ==
    [][call'.op \in {"make_binary", "make_categorical", "make_continuous"}
          => heap'["arg"] = heap["arg"]]_vars

\* the columns whose number of distinct non-missing values is not 2
C8_Violating ==
    {c \in Range(arg.columns) : Cardinality(Distinct(arg.values[c])) # 2}

C9_Complete ==
    {i \in DOMAIN arg.index :
        \A c \in Range(arg.columns) : Selected(c) => arg.values[c][i] # NA}

\* the j-th of them, in row order
C9_Nth(j) ==
    CHOOSE i \in C9_Complete :
        Cardinality({m \in C9_Complete : m < i}) = j - 1

\* C9: rowfilter_incomplete_observations removes a row exactly when it has a
\* missing cell in a selected column; the kept rows keep their order, their
\* cells and every column, and no selected column of the output has a
\* missing cell.
C9_RowsRemovedExactly ==
    Returned("rowfilter_incomplete_observations") =>
        /\ res.columns = arg.columns
        /\ res.dtypes = arg.dtypes
        /\ Len(res.index) = Cardinality(C9_Complete)
        /\ \A j \in DOMAIN res.index :
              /\ res.index[j] = arg.index[C9_Nth(j)]
              /\ \A c \in Range(arg.columns) :
                    res.values[c][j] = arg.values[c][C9_Nth(j)]
        /\ \A c \in Range(arg.columns) :
              Selected(c) => NonMissing(res.values[c]) = DOMAIN res.values[c]

\* the first row misses a cell of the selected column and is removed, the
\* second misses only an unselected cell and is kept
C9_Witness ==
    /\ Returned("rowfilter_incomplete_observations")
    /\ call.only = List({"a"})
    /\ arg.columns = <<"a", "b">>
    /\ arg.index = <<1, 2>>
    /\ arg.values["a"][1] = NA /\ arg.values["a"][2] # NA
    /\ arg.values["b"][2] = NA
    /\ res.index = <<2>>

\* C10 as stated: colfilter_percent_zero drops a selected column exactly when
\* zero_count / non_missing_count >= proportion, and a selected column with no
\* non-missing cell is kept unless proportion is 0.
C10_AllMissingKept ==
    Returned("colfilter_percent_zero") =>
        \A c \in Range(arg.columns) :
            Selected(c) =>
                LET z == Cardinality(Zeros(arg.values[c]))
                    m == Cardinality(NonMissing(arg.values[c]))
                    pn == call.ratio[1]
                    pd == call.ratio[2]
                IN  (c \notin Range(res.columns))
                        <=> IF m = 0 THEN pn = 0 ELSE z * pd >= pn * m

\* C10, amended: colfilter_percent_zero drops a selected column exactly when
\* zero_count / non_missing_count >= proportion or the column has no
\* non-missing cell (the undefined ratio is below no proportion).
C10_DroppedIffRatioOrAllMissing ==
    Returned("colfilter_percent_zero") =>
        \A c \in Range(arg.columns) :
            Selected(c) =>
                LET z == Cardinality(Zeros(arg.values[c]))
                    m == Cardinality(NonMissing(arg.values[c]))
                    pn == call.ratio[1]
                    pd == call.ratio[2]
                IN  (c \notin Range(res.columns))
                        <=> (m = 0 \/ z * pd >= pn * m)

\* with proportion 1/2, a column with no non-missing cell and a column whose
\* ratio is exactly 1/2 are both dropped
C10_Witness ==
    /\ Returned("colfilter_percent_zero")
    /\ call.skip = None /\ call.only = None
    /\ call.ratio = <<1, 2>>
    /\ arg.columns = <<"a", "b">>
    /\ Len(arg.index) = FilterRows
    /\ NonMissing(arg.values["a"]) = {}
    /\ 2 * Cardinality(Zeros(arg.values["b"]))
           = Cardinality(NonMissing(arg.values["b"]))
    /\ NonMissing(arg.values["b"]) # {}
    /\ res.columns = <<>>

====
